---- MODULE Spec2Model ----
(***************************************************************************)
(* The image agent of my-agent-be: the LangGraph workflow of               *)
(* services/agent.py (ImageAgent), the search and generation tools of      *)
(* services/image_tools.py, the object store client of                     *)
(* services/minio_client.py and the chat endpoint of routers/agent.py.     *)
(*                                                                         *)
(* A text (a Python str) is a sequence of symbols.  A symbol is one        *)
(* character ("\n", " ") or one indivisible piece of text: a fixed phrase  *)
(* of the formatter, a word of provider text.  Concatenation, join, strip, *)
(* slicing and splitting into lines act on the symbols as Python acts on   *)
(* the characters.                                                         *)
(***************************************************************************)
EXTENDS Integers, Sequences, FiniteSets, TLC

VARIABLES
    settings,      \* core/config.py: the keys read at start-up
    minio_client,  \* the MinIOClient singleton: client set, _initialized
    issued,        \* the values uuid.uuid4() has returned so far
    pending,       \* the chat requests not yet handed to agent.run
    pc,            \* per turn: the node of the graph that runs next
    st,            \* per turn: the AgentState threaded through the graph
    trace,         \* per turn: the nodes executed so far, in order
    calls,         \* per turn: the external calls made so far, in order
    writes,        \* per turn: the nodes that assigned state["response"]
    intent_call,   \* per turn: how the classification model call went
    intent_result, \* per turn: the JSON object the classifier reply held
    search_world,  \* per turn: the query sent to the reference search and
                   \*   what the search provider and the store answered
    chat_reply,    \* per turn: what the conversational model call returned
    gen_world,     \* per turn: what the generation provider and the store
                   \*   answer for a generated image when they are asked,
                   \*   and the prompt the node handed to the tool
    payload,       \* per turn: the dict run() returned
    http,          \* per turn: what the chat endpoint answered
    tool_results   \* the results of the calls made on the tools directly

vars == <<settings, minio_client, issued, pending, pc, st, trace, calls, writes,
          intent_call, intent_result, search_world, chat_reply, gen_world,
          payload, http, tool_results>>

(***************************************************************************)
(* Bounds of the model.                                                    *)
(***************************************************************************)
\* the longest conversation history handed to run()
MaxHistory == 6
\* the number of values uuid.uuid4() draws from
NumUuids == 2
\* the number of calls made on the tools directly
MaxToolCalls == 2

\* the chat requests: one request in Spec, two in ConcSpec
Turns == {1, 2}

(***************************************************************************)
(* Python values.  k is the type, s is str() of the value (for a str, the  *)
(* text itself).                                                           *)
(***************************************************************************)
None == [k |-> "none", s |-> <<"None">>]
PyTrue == [k |-> "bool", s |-> <<"True">>]
PyFalse == [k |-> "bool", s |-> <<"False">>]
PyStr(text) == [k |-> "str", s |-> text]
PyInt(digits) == [k |-> "int", s |-> <<digits>>]
\* a key a JSON object does not have
Missing == [k |-> "missing", s |-> <<>>]

\* Python truthiness, as if v: evaluates it
Truthy(v) ==
    CASE v.k = "none" -> FALSE
      [] v.k = "bool" -> v = PyTrue
      [] v.k = "str" -> v.s # <<>>
      [] v.k = "int" -> v.s # <<"0">>
      [] OTHER -> FALSE

\* f"{v}"
Format(v) == v.s

\* d.get(key, default)
Get(d, key, default) == IF key \in DOMAIN d THEN d[key] ELSE default

\* {}
EmptyDict == [key \in {} |-> None]

(***************************************************************************)
(* Text helpers.                                                           *)
(***************************************************************************)
NL == "\n"
SP == " "
Whitespace == {NL, SP}

Min(a, b) == IF a < b THEN a ELSE b

RECURSIVE LStrip(_)
LStrip(text) ==
    IF text # <<>> /\ Head(text) \in Whitespace THEN LStrip(Tail(text)) ELSE text

RECURSIVE RStrip(_)
RStrip(text) ==
    IF text # <<>> /\ text[Len(text)] \in Whitespace
    THEN RStrip(SubSeq(text, 1, Len(text) - 1))
    ELSE text

\* str.strip()
Strip(text) == RStrip(LStrip(text))

\* sep.join(parts)
RECURSIVE Join(_, _)
Join(parts, sep) ==
    IF parts = <<>> THEN <<>>
    ELSE IF Len(parts) = 1 THEN parts[1]
    ELSE parts[1] \o <<sep>> \o Join(Tail(parts), sep)

\* text.split("\n")
RECURSIVE Lines(_)
Lines(text) ==
    IF \A i \in 1..Len(text) : text[i] # NL THEN <<text>>
    ELSE LET i == CHOOSE j \in 1..Len(text) :
                      /\ text[j] = NL
                      /\ \A h \in 1..(j - 1) : text[h] # NL
         IN <<SubSeq(text, 1, i - 1)>> \o Lines(SubSeq(text, i + 1, Len(text)))

\* the number of times x occurs in the sequence s
Count(s, x) == Cardinality({i \in 1..Len(s) : s[i] = x})

\* the place of the first x in s, 0 when there is none
IndexOf(s, x) ==
    IF \E i \in 1..Len(s) : s[i] = x
    THEN CHOOSE i \in 1..Len(s) : s[i] = x /\ \A h \in 1..(i - 1) : s[h] # x
    ELSE 0

(***************************************************************************)
(* services/minio_client.py: the object store client.                      *)
(* minio_client is [client, initialized]: whether self.client is set and   *)
(* self._initialized.  Every operation takes the outcomes of the external  *)
(* calls it makes and returns the client's new state, what it returns and  *)
(* the calls it made.                                                      *)
(***************************************************************************)
\* Minio(...) and bucket_exists/make_bucket in _initialize
InitOutcomes == {"ok", "constructor_raises", "bucket_raises", "bucket_s3error"}
\* the download and the put_object of upload_image_from_url
UploadOutcomes == {"ok", "download_raises", "http_error", "not_image", "put_raises"}
\* presigned_get_object in get_image_url
SignOutcomes == {"ok", "raises"}

\* uuid.uuid4()
Uuids == {"uuid" \o ToString(i) : i \in 1..NumUuids}

\* sub in text
Has(text, sub) == \E i \in 1..Len(text) : text[i] = sub

\* _initialize, lines 27-36: the try block, the client it leaves and
\* whether an exception leaves the block
MinIO_initialize_try(m, o_init) ==
    CASE o_init = "constructor_raises" -> [m |-> m, raised |-> TRUE]
      [] o_init = "bucket_raises" ->
           [m |-> [m EXCEPT !.client = TRUE], raised |-> TRUE]
      [] OTHER ->
           [m |-> [client |-> TRUE, initialized |-> TRUE], raised |-> FALSE]

\* an except clause that raises the exception again
except_reraises(r) == r

\* except Exception of _initialize, lines 37-40: printed, not raised again
except_prints(r) == [r EXCEPT !.raised = FALSE]

\* the except clauses of the upload and signing functions: return None
except_returns_none(r) ==
    IF r.raised THEN [r EXCEPT !.raised = FALSE, !.ret = None] ELSE r

\* _initialize: the client it leaves and whether it raises to its caller
MinIO_initialize_call(m, o_init) ==
    IF m.initialized THEN [m |-> m, raised |-> FALSE]
    ELSE except_prints(MinIO_initialize_try(m, o_init))

MinIO_initialize(m, o_init) == MinIO_initialize_call(m, o_init).m

\* the calls _initialize makes
MinIO_initialize_calls(m, o_init) ==
    IF m.initialized \/ o_init = "constructor_raises" THEN <<>>
    ELSE <<"store.bucket_exists">>

get_extension_from_url(url) ==
    IF Has(url, ".jpg") \/ Has(url, ".jpeg") THEN ".jpg"
    ELSE IF Has(url, ".png") THEN ".png"
    ELSE IF Has(url, ".gif") THEN ".gif"
    ELSE IF Has(url, ".webp") THEN ".webp"
    ELSE ".jpg"

\* upload_image_from_url that calls put_object a second time when the
\* first call raised
upload_image_from_url_try_retrying(m1, c1, image_url, prefix, o_up, uuid) ==
    CASE o_up = "download_raises" ->
           [m |-> m1, raised |-> TRUE, ret |-> None, calls |-> c1 \o <<"http.get">>]
      [] o_up \in {"http_error", "not_image"} ->
           [m |-> m1, raised |-> FALSE, ret |-> None, calls |-> c1 \o <<"http.get">>]
      [] o_up = "put_raises" ->
           [m |-> m1, raised |-> TRUE, ret |-> None,
            calls |-> c1 \o <<"http.get", "store.put_object", "store.put_object">>]
      [] OTHER ->
           [m |-> m1, raised |-> FALSE,
            ret |-> PyStr(<<prefix, "/", uuid, get_extension_from_url(image_url)>>),
            calls |-> c1 \o <<"http.get", "store.put_object">>]

\* upload_image_from_url that names the object after the URL of the image
upload_image_from_url_try_by_url(m1, c1, image_url, prefix, o_up, uuid) ==
    CASE o_up = "download_raises" ->
           [m |-> m1, raised |-> TRUE, ret |-> None, calls |-> c1 \o <<"http.get">>]
      [] o_up \in {"http_error", "not_image"} ->
           [m |-> m1, raised |-> FALSE, ret |-> None, calls |-> c1 \o <<"http.get">>]
      [] o_up = "put_raises" ->
           [m |-> m1, raised |-> TRUE, ret |-> None,
            calls |-> c1 \o <<"http.get", "store.put_object">>]
      [] OTHER ->
           [m |-> m1, raised |-> FALSE,
            ret |-> PyStr(<<prefix, "/">> \o image_url),
            calls |-> c1 \o <<"http.get", "store.put_object">>]

\* upload_image_from_url, lines 71-113: the try block
upload_image_from_url_try(m1, c1, image_url, prefix, o_up, uuid) ==
    CASE o_up = "download_raises" ->
           [m |-> m1, raised |-> TRUE, ret |-> None, calls |-> c1 \o <<"http.get">>]
      [] o_up \in {"http_error", "not_image"} ->
           [m |-> m1, raised |-> FALSE, ret |-> None, calls |-> c1 \o <<"http.get">>]
      [] o_up = "put_raises" ->
           [m |-> m1, raised |-> TRUE, ret |-> None,
            calls |-> c1 \o <<"http.get", "store.put_object">>]
      [] OTHER ->
           [m |-> m1, raised |-> FALSE,
            ret |-> PyStr(<<prefix, "/", uuid, get_extension_from_url(image_url)>>),
            calls |-> c1 \o <<"http.get", "store.put_object">>]

upload_image_from_url(m, image_url, prefix, o_init, o_up, uuid) ==
    LET i == MinIO_initialize_call(m, o_init)
        c1 == MinIO_initialize_calls(m, o_init)
    IN IF i.raised
       THEN [m |-> i.m, raised |-> TRUE, ret |-> None, calls |-> c1]
       ELSE IF ~i.m.client
       THEN [m |-> i.m, raised |-> FALSE, ret |-> None, calls |-> c1]
       ELSE except_returns_none(
                upload_image_from_url_try(i.m, c1, image_url, prefix, o_up, uuid))

\* the put_object of upload_image_from_bytes; image_data that is no bytes
\* makes io.BytesIO raise
BytesOutcomes == {"ok", "not_bytes", "put_raises"}

\* upload_image_from_bytes, lines 148-160: the try block
upload_image_from_bytes_try(m1, c1, prefix, extension, o_put, uuid) ==
    CASE o_put = "not_bytes" ->
           [m |-> m1, raised |-> TRUE, ret |-> None, calls |-> c1]
      [] o_put = "put_raises" ->
           [m |-> m1, raised |-> TRUE, ret |-> None,
            calls |-> c1 \o <<"store.put_object">>]
      [] OTHER ->
           [m |-> m1, raised |-> FALSE,
            ret |-> PyStr(<<prefix, "/", uuid, extension>>),
            calls |-> c1 \o <<"store.put_object">>]

upload_image_from_bytes(m, prefix, extension, o_init, o_put, uuid) ==
    LET i == MinIO_initialize_call(m, o_init)
        c1 == MinIO_initialize_calls(m, o_init)
    IN IF i.raised
       THEN [m |-> i.m, raised |-> TRUE, ret |-> None, calls |-> c1]
       ELSE IF ~i.m.client
       THEN [m |-> i.m, raised |-> FALSE, ret |-> None, calls |-> c1]
       ELSE except_returns_none(
                upload_image_from_bytes_try(i.m, c1, prefix, extension, o_put, uuid))

\* get_image_url, lines 182-188: the try block
get_image_url_try(m1, c1, object_name, o_sign) ==
    IF o_sign = "raises"
    THEN [m |-> m1, raised |-> TRUE, ret |-> None,
          calls |-> c1 \o <<"store.presigned_get_object">>]
    ELSE [m |-> m1, raised |-> FALSE,
          ret |-> PyStr(<<"https://minio/">> \o object_name.s \o <<"?X-Amz-Signature">>),
          calls |-> c1 \o <<"store.presigned_get_object">>]

get_image_url(m, object_name, o_init, o_sign) ==
    LET i == MinIO_initialize_call(m, o_init)
        c1 == MinIO_initialize_calls(m, o_init)
    IN IF i.raised
       THEN [m |-> i.m, raised |-> TRUE, ret |-> None, calls |-> c1]
       ELSE IF ~i.m.client
       THEN [m |-> i.m, raised |-> FALSE, ret |-> None, calls |-> c1]
       ELSE except_returns_none(get_image_url_try(i.m, c1, object_name, o_sign))

(***************************************************************************)
(* services/image_tools.py: the search tool.                               *)
(***************************************************************************)
ImageUrls == { <<"https://img/cat", ".png">> }
Titles == { <<"cat">>, <<"cat", NL, "pic">> }

\* what the search provider answers: an HTTP error status, a timeout,
\* another error, no image, a first image without imageUrl, a first image
\* whose imageUrl is empty, a first image
SearchOutcomes ==
    { [kind |-> k, imageUrl |-> <<>>, title |-> <<>>] :
          k \in {"http_error", "timeout", "raises", "no_images", "no_url",
                 "empty_url"} }
    \cup { [kind |-> "image", imageUrl |-> u, title |-> ti] :
          u \in ImageUrls, ti \in Titles }

\* search_image that reports an image it found and could not store as a
\* success carrying the URL of the provider, as generate_image does
ImageSearchTool_search_image_try_degraded(m, query, so, o_init, o_up, uuid, o_init2, o_sign) ==
    LET none == [m |-> m, raised |-> FALSE, ret |-> None,
                 calls |-> <<"search_provider">>, q |-> query]
    IN IF so.kind \in {"http_error", "timeout", "raises"}
       THEN [none EXCEPT !.raised = TRUE]
       ELSE IF so.kind \in {"no_images", "no_url", "empty_url"} \/ so.imageUrl = <<>>
       THEN none
       ELSE LET up == upload_image_from_url(m, so.imageUrl, "search-results",
                                            o_init, o_up, uuid)
                sg == get_image_url(up.m, up.ret, o_init2, o_sign)
            IN IF Truthy(up.ret)
               THEN [none EXCEPT
                       !.m = sg.m,
                       !.ret = [success |-> PyTrue,
                                original_url |-> PyStr(so.imageUrl),
                                minio_path |-> up.ret,
                                presigned_url |-> sg.ret,
                                title |-> PyStr(so.title),
                                source |-> PyStr(<<"source">>)],
                       !.calls = @ \o up.calls \o sg.calls]
               ELSE [none EXCEPT
                       !.m = up.m,
                       !.ret = [success |-> PyTrue,
                                original_url |-> PyStr(so.imageUrl),
                                minio_path |-> None,
                                presigned_url |-> PyStr(so.imageUrl),
                                title |-> PyStr(so.title),
                                source |-> PyStr(<<"source">>)],
                       !.calls = @ \o up.calls]

\* search_image, lines 32-77: the try block; q is the "q" of the payload
\* posted to the provider
ImageSearchTool_search_image_try(m, query, so, o_init, o_up, uuid, o_init2, o_sign) ==
    LET none == [m |-> m, raised |-> FALSE, ret |-> None,
                 calls |-> <<"search_provider">>, q |-> query]
    IN IF so.kind \in {"http_error", "timeout", "raises"}
       THEN [none EXCEPT !.raised = TRUE]
       ELSE IF so.kind \in {"no_images", "no_url", "empty_url"} \/ so.imageUrl = <<>>
       THEN none
       ELSE LET up == upload_image_from_url(m, so.imageUrl, "search-results",
                                            o_init, o_up, uuid)
            IN IF up.raised
               THEN [none EXCEPT !.m = up.m, !.raised = TRUE,
                                 !.calls = @ \o up.calls]
               ELSE IF ~Truthy(up.ret)
               THEN [none EXCEPT !.m = up.m, !.calls = @ \o up.calls]
               ELSE LET sg == get_image_url(up.m, up.ret, o_init2, o_sign)
                    IN IF sg.raised
                       THEN [none EXCEPT !.m = sg.m, !.raised = TRUE,
                                         !.calls = @ \o up.calls \o sg.calls]
                       ELSE [none EXCEPT
                               !.m = sg.m,
                               !.ret = [success |-> PyTrue,
                                        original_url |-> PyStr(so.imageUrl),
                                        minio_path |-> up.ret,
                                        presigned_url |-> sg.ret,
                                        title |-> PyStr(so.title),
                                        source |-> PyStr(<<"source">>)],
                               !.calls = @ \o up.calls \o sg.calls]

\* an except clause of a tool that raises the exception again
tool_except_reraises(r) == r

\* search_image, lines 79-81: except Exception returns None
tool_except_returns_none(r) ==
    IF r.raised THEN [r EXCEPT !.raised = FALSE, !.ret = None] ELSE r

ImageSearchTool_search_image(m, query, so, o_init, o_up, uuid, o_init2, o_sign) ==
    tool_except_returns_none(
        ImageSearchTool_search_image_try(m, query, so, o_init, o_up, uuid,
                                         o_init2, o_sign))

(***************************************************************************)
(* services/image_tools.py: the generation tool.                           *)
(***************************************************************************)
GenUrls == { <<"https://ark/generated", ".jpeg">> }

\* what the generation provider answers: an HTTP error, a timeout, another
\* error, a body without data or url, a generated image
GenOutcomes ==
    { [kind |-> k, url |-> <<>>] :
          k \in {"http_error", "timeout", "raises", "malformed"} }
    \cup { [kind |-> "image", url |-> u] : u \in GenUrls }

\* line 201, prompt[:100] in the f-string print() is given: a TypeError
\* when prompt is no str
SliceRaises(prompt) == prompt.k # "str"

generate_image_simple(prompt, reference_image_url) ==
    IF SliceRaises(prompt)
    THEN [raised |-> TRUE, ret |-> None]
    ELSE [raised |-> FALSE,
          ret |-> [success |-> PyFalse,
                   minio_path |-> None,
                   presigned_url |-> None,
                   prompt |-> prompt,
                   message |-> PyStr(<<"configure DOUBAO_API_KEY">>)]]

ImageGenerationTool_generate_image(m, prompt, reference_image_url, api_key, go, o_init, o_up, uuid, o_init2, o_sign) ==
    IF api_key = ""
    THEN LET r == generate_image_simple(prompt, reference_image_url)
         IN [m |-> m, raised |-> r.raised, ret |-> r.ret, calls |-> <<>>]
    ELSE IF go.kind \in {"http_error", "timeout", "raises"}
    THEN [m |-> m, raised |-> FALSE, ret |-> None,
          calls |-> <<"generation_provider">>]
    ELSE IF go.kind = "malformed" \/ go.url = <<>>
    THEN [m |-> m, raised |-> FALSE, ret |-> None,
          calls |-> <<"generation_provider">>]
    ELSE LET up == upload_image_from_url(m, go.url, "generated-images",
                                         o_init, o_up, uuid)
         IN IF Truthy(up.ret)
            THEN LET sg == get_image_url(up.m, up.ret, o_init2, o_sign)
                 IN [m |-> sg.m, raised |-> FALSE,
                     ret |-> [success |-> PyTrue,
                              minio_path |-> up.ret,
                              presigned_url |-> sg.ret,
                              prompt |-> prompt,
                              original_url |-> PyStr(go.url)],
                     calls |-> <<"generation_provider">> \o up.calls \o sg.calls]
            ELSE [m |-> up.m, raised |-> FALSE,
                  ret |-> [success |-> PyTrue,
                           minio_path |-> None,
                           presigned_url |-> PyStr(go.url),
                           prompt |-> prompt,
                           original_url |-> PyStr(go.url)],
                  calls |-> <<"generation_provider">> \o up.calls]

(***************************************************************************)
(* services/agent.py: the reply of the classification model.               *)
(* A reply is a sequence of tokens: whitespace, prose, a fence marker      *)
(* (fence_json: three backquotes and json; fence: three backquotes), or a  *)
(* JSON value (an object with its need_image and search_query members, or  *)
(* an array).                                                              *)
(***************************************************************************)
Tok(kind) == [kind |-> kind, need_image |-> Missing, search_query |-> Missing]
JsonObject(n, q) == [kind |-> "object", need_image |-> n, search_query |-> q]

NeedImageValues == {Missing, PyTrue, PyFalse, None, PyStr(<<"yes">>), PyInt("0")}
SearchQueryValues == {Missing, None, PyStr(<<>>), PyStr(<<"cat">>), PyInt("42")}

JsonObjects == { JsonObject(n, q) : n \in NeedImageValues, q \in SearchQueryValues }
Bodies == JsonObjects \cup {Tok("array"), Tok("text")}

\* the replies of the classification model
ClassifierReplies ==
    { <<b>> : b \in Bodies }
    \cup { <<Tok("ws"), b, Tok("ws")>> : b \in Bodies }
    \cup { <<Tok("fence_json"), Tok("ws"), b, Tok("ws"), Tok("fence")>> : b \in Bodies }
    \cup { <<Tok("fence"), b, Tok("fence")>> : b \in Bodies }
    \cup { <<Tok("text"), Tok("fence_json"), b, Tok("fence"), Tok("text")>> : b \in Bodies }
    \cup { <<Tok("fence_json"), b>> : b \in Bodies }
    \cup { <<Tok("fence"), b, Tok("ws")>> : b \in Bodies }
    \cup { <<Tok("text"), b>> : b \in Bodies }
    \cup { <<>> }

\* a model call: it raised (an error, a timeout), or it returned content
LlmRaised == [raised |-> TRUE, content |-> <<>>]
LlmReturned(content) == [raised |-> FALSE, content |-> content]

RECURSIVE LStripTokens(_)
LStripTokens(text) ==
    IF text # <<>> /\ Head(text).kind = "ws" THEN LStripTokens(Tail(text)) ELSE text

RECURSIVE RStripTokens(_)
RStripTokens(text) ==
    IF text # <<>> /\ text[Len(text)].kind = "ws"
    THEN RStripTokens(SubSeq(text, 1, Len(text) - 1))
    ELSE text

\* response.content.strip()
StripTokens(text) == RStripTokens(LStripTokens(text))

FenceKinds == {"fence_json", "fence"}

\* text.find(marker, start): the first token at or after start that holds
\* the marker, 0 when there is none (-1 in Python)
Find(text, kinds, start) ==
    IF \E i \in start..Len(text) : text[i].kind \in kinds
    THEN CHOOSE i \in start..Len(text) :
             /\ text[i].kind \in kinds
             /\ \A h \in start..(i - 1) : text[h].kind \notin kinds
    ELSE 0

\* text[:-1]: the last character is cut; a token cut short is no JSON value
\* and no marker any more
DropLastChar(text) ==
    IF text = <<>> THEN <<>>
    ELSE IF text[Len(text)].kind = "ws" THEN SubSeq(text, 1, Len(text) - 1)
    ELSE SubSeq(text, 1, Len(text) - 1) \o <<Tok("text")>>

\* text[json_start:json_end] with json_end from find()
Between(text, open, close) ==
    IF close = 0 THEN DropLastChar(SubSeq(text, open + 1, Len(text)))
    ELSE SubSeq(text, open + 1, close - 1)

\* lines 92-103: strip, then the content of the first fenced block
extract_json(content) ==
    LET text == StripTokens(content)
    IN IF \E i \in 1..Len(text) : text[i].kind = "fence_json"
       THEN LET open == Find(text, {"fence_json"}, 1)
            IN StripTokens(Between(text, open, Find(text, FenceKinds, open + 1)))
       ELSE IF \E i \in 1..Len(text) : text[i].kind = "fence"
       THEN LET open == Find(text, {"fence"}, 1)
            IN StripTokens(Between(text, open, Find(text, FenceKinds, open + 1)))
       ELSE text

\* json.loads(response_text) raises
json_loads_raises(text) ==
    LET t == StripTokens(text)
    IN ~(Len(t) = 1 /\ t[1].kind \in {"object", "array"})

\* json.loads(response_text)
json_loads(text) == StripTokens(text)[1]

(***************************************************************************)
(* services/agent.py: the nodes of the graph, as functions of the state.   *)
(***************************************************************************)
\* the number of history messages normal_chat keeps
HistoryWindow == 5

Msg(role, content) == [role |-> role, content |-> content]

SystemInstruction == <<"You are a friendly AI assistant.">>
Apology == <<"Sorry, I ran into a problem, please try again later.">>

\* the fixed phrases of format_response
FoundPrefix == "[found reference image:]"
RefLinkPrefix == "[reference image link:]"
DefaultTitle == "[sample image]"
NotFoundLine == "[no suitable reference image found]"
GenOkLine == "[generated a new image for you]"
GenLinkPrefix == "[generated image link:]"
GenPromptPrefix == "[generation prompt:]"
GenFailLine == "[image generation failed, retry later]"

\* run(), lines 243-251
initial_state(user_input, conversation_history) ==
    [messages |-> conversation_history,
     user_input |-> user_input,
     need_image_generation |-> PyFalse,
     search_query |-> PyStr(<<>>),
     reference_image |-> EmptyDict,
     generated_image |-> EmptyDict,
     response |-> <<>>]

\* if result: for an Optional[Dict]
DictTruthy(d) == d # None /\ DOMAIN d # {}

\* analyze_intent with an except branch that defaults to the image branch
analyze_intent_fail_open(s, llm) ==
    IF llm.raised \/ json_loads_raises(extract_json(llm.content))
    THEN [s EXCEPT !.need_image_generation = PyTrue]
    ELSE s

\* analyze_intent with result.get("search_query", ""): no default to the
\* user input
analyze_intent_no_default(s, llm) ==
    IF llm.raised \/ json_loads_raises(extract_json(llm.content))
    THEN [s EXCEPT !.need_image_generation = PyFalse]
    ELSE LET result == json_loads(extract_json(llm.content))
             need == IF result.need_image = Missing THEN PyFalse
                     ELSE result.need_image
         IN IF result.kind # "object"
            THEN [s EXCEPT !.need_image_generation = PyFalse]
            ELSE IF Truthy(need)
            THEN [s EXCEPT
                    !.need_image_generation = need,
                    !.search_query = IF result.search_query = Missing
                                     THEN PyStr(<<>>)
                                     ELSE result.search_query]
            ELSE [s EXCEPT !.need_image_generation = need]

analyze_intent(s, llm) ==
    IF llm.raised
    THEN [s EXCEPT !.need_image_generation = PyFalse]
    ELSE LET text == extract_json(llm.content)
         IN IF json_loads_raises(text)
            THEN [s EXCEPT !.need_image_generation = PyFalse]
            ELSE LET result == json_loads(text)
                 IN IF result.kind # "object"
                    \* result.get: AttributeError, caught
                    THEN [s EXCEPT !.need_image_generation = PyFalse]
                    ELSE LET need == IF result.need_image = Missing
                                     THEN PyFalse
                                     ELSE result.need_image
                         IN IF Truthy(need)
                            THEN [s EXCEPT
                                    !.need_image_generation = need,
                                    !.search_query =
                                        IF result.search_query = Missing
                                        THEN PyStr(s.user_input)
                                        ELSE result.search_query]
                            ELSE [s EXCEPT !.need_image_generation = need]

route_after_intent(s) ==
    IF Truthy(s.need_image_generation) THEN "search" ELSE "chat"

\* the conditional edges of _build_graph
IntentEdges == [search |-> "search_image", chat |-> "normal_chat"]

\* the edges with search_image wired to format_response
Edges_search_to_format ==
    [search_image |-> "format_response",
     generate_image |-> "format_response",
     normal_chat |-> "format_response",
     format_response |-> "end"]

\* the unconditional edges of _build_graph; "end" is END
Edges ==
    [search_image |-> "generate_image",
     generate_image |-> "format_response",
     normal_chat |-> "format_response",
     format_response |-> "end"]

\* how the classification call went: it raised, its reply (after the fence
\* is removed) is no JSON, is JSON but no object, is a JSON object
intent_call_kind(llm) ==
    IF llm.raised THEN "raised"
    ELSE IF json_loads_raises(extract_json(llm.content)) THEN "unparsable"
    ELSE IF json_loads(extract_json(llm.content)).kind # "object" THEN "not_object"
    ELSE "parsed"

\* search_image, lines 132-137
search_image(s, result) ==
    IF DictTruthy(result)
    THEN [s EXCEPT !.reference_image = result]
    ELSE [s EXCEPT !.reference_image = EmptyDict]

\* generate_image, lines 155-160
generation_prompt(s, llm) ==
    IF llm.raised THEN s.search_query ELSE PyStr(Strip(llm.content))

\* generate_image, line 165
reference_url(s) ==
    IF DictTruthy(s.reference_image)
    THEN Get(s.reference_image, "presigned_url", None)
    ELSE None

\* generate_image with the call of the tool that asks the provider, answered
\* with an image that is stored and signed
generate_image_call_provider(prompt, reference_image_url) ==
    [raised |-> FALSE,
     ret |-> [success |-> PyTrue,
              minio_path |-> PyStr(<<"generated-images", "/", "uuid", ".jpg">>),
              presigned_url |-> PyStr(<<"https://minio/generated">>),
              prompt |-> prompt,
              original_url |-> PyStr(<<"https://ark/generated", ".jpeg">>)],
     calls |-> <<"generation_provider", "http.get", "store.put_object",
                 "store.presigned_get_object">>]

\* generate_image, lines 167-170: the tool the node calls, and the external
\* calls that tool makes
generate_image_call(prompt, reference_image_url) ==
    LET r == generate_image_simple(prompt, reference_image_url)
    IN [raised |-> r.raised, ret |-> r.ret, calls |-> <<>>]

\* generate_image that also stores the prompt of the result as search_query
generate_image_overwrites_query(s, result) ==
    IF DictTruthy(result)
    THEN [s EXCEPT !.generated_image = result,
                   !.search_query = Get(result, "prompt", s.search_query)]
    ELSE [s EXCEPT !.generated_image = EmptyDict]

\* generate_image, lines 172-177
generate_image(s, result) ==
    IF DictTruthy(result)
    THEN [s EXCEPT !.generated_image = result]
    ELSE [s EXCEPT !.generated_image = EmptyDict]

\* messages[:5]: the first messages of the history, not the last
LastMessages_first(messages) ==
    SubSeq(messages, 1, Min(HistoryWindow, Len(messages)))

\* messages[-5:]
LastMessages(messages) ==
    SubSeq(messages, Len(messages) - Min(HistoryWindow, Len(messages)) + 1,
           Len(messages))

\* normal_chat, lines 187-191
chat_messages(s) ==
    <<Msg("system", SystemInstruction)>>
    \o LastMessages(s.messages)
    \o <<Msg("human", s.user_input)>>

\* normal_chat with the reply stripped, as the other two model calls are
normal_chat_stripped(s, llm) ==
    IF llm.raised
    THEN [s EXCEPT !.response = Apology]
    ELSE [s EXCEPT !.response = Strip(llm.content)]

\* normal_chat whose except branch sets no apology
normal_chat_no_apology(s, llm) ==
    IF llm.raised THEN s ELSE [s EXCEPT !.response = llm.content]

\* normal_chat that answers an empty reply with the apology
normal_chat_apology_on_empty(s, llm) ==
    IF llm.raised \/ llm.content = <<>>
    THEN [s EXCEPT !.response = Apology]
    ELSE [s EXCEPT !.response = llm.content]

\* normal_chat, lines 193-198
normal_chat(s, llm) ==
    IF llm.raised
    THEN [s EXCEPT !.response = Apology]
    ELSE [s EXCEPT !.response = llm.content]

\* reference_parts with no line when the search failed
reference_parts_silent(reference_image) ==
    IF Truthy(Get(reference_image, "success", None))
    THEN << <<FoundPrefix>>
               \o Format(Get(reference_image, "title", PyStr(<<DefaultTitle>>))),
            <<RefLinkPrefix>> \o Format(reference_image["presigned_url"]) >>
    ELSE << >>

\* format_response, lines 210-216
reference_parts(reference_image) ==
    IF Truthy(Get(reference_image, "success", None))
    THEN << <<FoundPrefix>>
               \o Format(Get(reference_image, "title", PyStr(<<DefaultTitle>>))),
            <<RefLinkPrefix>> \o Format(reference_image["presigned_url"]) >>
    ELSE << <<NotFoundLine>> >>

\* generation_parts with the prompt line before the link line
generation_parts_swapped(generated_image) ==
    IF Truthy(Get(generated_image, "success", None))
    THEN << <<NL, GenOkLine>>,
            <<GenPromptPrefix>>
               \o Format(Get(generated_image, "prompt", PyStr(<<>>))),
            <<GenLinkPrefix>> \o Format(generated_image["presigned_url"]) >>
    ELSE << <<NL, GenFailLine>> >>

\* format_response, lines 218-225
generation_parts(generated_image) ==
    IF Truthy(Get(generated_image, "success", None))
    THEN << <<NL, GenOkLine>>,
            <<GenLinkPrefix>> \o Format(generated_image["presigned_url"]),
            <<GenPromptPrefix>>
               \o Format(Get(generated_image, "prompt", PyStr(<<>>))) >>
    ELSE << <<NL, GenFailLine>> >>

format_response(s) ==
    IF Truthy(s.need_image_generation)
    THEN [s EXCEPT !.response =
              Join(reference_parts(s.reference_image)
                   \o generation_parts(s.generated_image), NL)]
    ELSE s

\* run(), lines 256-261
run_result(final_state) ==
    [response |-> final_state.response,
     reference_image |-> final_state.reference_image,
     generated_image |-> final_state.generated_image,
     need_image_generation |-> final_state.need_image_generation]

(***************************************************************************)
(* The inputs and the answers of the environment.                          *)
(***************************************************************************)
UserInputs == { <<"a cat picture please">>, <<"hello">> }

History(n) ==
    [i \in 1..n |-> Msg(IF i % 2 = 1 THEN "human" ELSE "ai", <<"m" \o ToString(i)>>)]

\* no history, as routers/agent.py calls run(), and the longest one
Histories == { History(n) : n \in {0, MaxHistory} }

\* the replies of the prompt refinement call
RefineReplies ==
    {LlmRaised}
    \cup { LlmReturned(c) :
             c \in { <<"a detailed prompt">>,
                     <<SP, "a detailed", NL, "prompt", NL>>,
                     <<>> } }

\* the replies of the conversational call; the model can itself reply with
\* the text of the apology
ChatReplies ==
    {LlmRaised}
    \cup { LlmReturned(c) :
             c \in { <<"hi there">>, <<SP, "hi", NL, "there", NL>>, <<>>,
                     Apology } }

\* the object store towards a generated image: stored and signed, stored
\* but not signed, not stored
GenStoreOutcomes == {"ok", "sign_fails", "upload_fails"}

GenWorlds ==
    { [provider |-> go, store |-> "ok"] : go \in GenOutcomes }
    \cup { [provider |-> go, store |-> o] :
              go \in {g \in GenOutcomes : g.kind = "image"},
              o \in GenStoreOutcomes }
NoWorld ==
    [provider |-> [kind |-> "unasked", url |-> <<>>], store |-> "ok",
     prompt |-> None, reference_image_url |-> None, refine_raised |-> FALSE,
     tool_calls |-> 0]

\* the reference search has not been called
NoSearch ==
    [asked |-> FALSE, query |-> None,
     provider |-> [kind |-> "unasked", imageUrl |-> <<>>, title |-> <<>>],
     upload |-> "unasked", sign |-> "unasked"]

\* what the reference search was asked and what it was answered: the query
\* posted, the answer of the provider, how the upload of the image went
\* (unasked, no_client, or the outcome of the download and put_object) and
\* how the signing went
SearchWorld(m, query, so, o_init, o_up, o_sign) ==
    LET upload == IF so.kind # "image" THEN "unasked"
                  ELSE IF ~MinIO_initialize(m, o_init).client THEN "no_client"
                  ELSE o_up
    IN [asked |-> TRUE, query |-> query, provider |-> so, upload |-> upload,
        sign |-> IF upload = "ok" THEN o_sign ELSE "unasked"]

\* the classifier reply held no JSON object
NoResult == Tok("none")

\* the JSON object analyze_intent read, line 105
intent_call_result(llm) ==
    IF intent_call_kind(llm) = "parsed"
    THEN json_loads(extract_json(llm.content))
    ELSE NoResult

\* the chat endpoint has not answered
NoResponse == [status |-> 0, message |-> None]

NoCall == [made |-> FALSE, raised |-> FALSE, content |-> <<>>, messages |-> <<>>]

Nodes == {"analyze_intent", "search_image", "generate_image", "normal_chat",
          "format_response"}

(***************************************************************************)
(* routers/agent.py: the chat endpoint.                                    *)
(***************************************************************************)
\* chat, lines 28-55: a ChatResponse with the response of run(), or an
\* HTTPException when run() raised
chat(run_raised, result) ==
    IF run_raised
    THEN [status |-> 500, message |-> None]
    ELSE [status |-> 200, message |-> PyStr(result.response)]

(***************************************************************************)
(* Two requests at a time: the inputs and the answers are drawn from one   *)
(* or two values of each kind.                                             *)
(***************************************************************************)
TwoTurns == \E t \in Turns \ {1} : t \in pending \/ pc[t] # "idle"

Scope(full, narrow) == IF TwoTurns THEN narrow ELSE full

NarrowHistories == { History(0) }
NarrowClassifierReplies ==
    { LlmRaised,
      LlmReturned(<<JsonObject(PyFalse, Missing)>>),
      LlmReturned(<<JsonObject(PyTrue, Missing)>>) }
NarrowSearchOutcomes ==
    { so \in SearchOutcomes : so.kind = "timeout" \/ so.title = <<"cat">> }
NarrowInitOutcomes == {"ok", "bucket_raises"}
NarrowUploadOutcomes == {"ok", "put_raises"}
NarrowRefineReplies == { LlmRaised, LlmReturned(<<"a detailed prompt">>) }
NarrowChatReplies == { LlmRaised, LlmReturned(<<"hi there">>) }
NarrowGenWorlds == { w \in GenWorlds : w.provider.kind = "timeout" }

(***************************************************************************)
(* The state after start-up: the singletons are built, no request runs.    *)
(***************************************************************************)
InitTurns ==
    /\ minio_client = [client |-> FALSE, initialized |-> FALSE]
    /\ issued = {}
    /\ pc = [t \in Turns |-> "idle"]
    /\ st = [t \in Turns |-> initial_state(<<>>, <<>>)]
    /\ trace = [t \in Turns |-> <<>>]
    /\ calls = [t \in Turns |-> <<>>]
    /\ writes = [t \in Turns |-> <<>>]
    /\ intent_call = [t \in Turns |-> "none"]
    /\ intent_result = [t \in Turns |-> NoResult]
    /\ search_world = [t \in Turns |-> NoSearch]
    /\ chat_reply = [t \in Turns |-> NoCall]
    /\ gen_world = [t \in Turns |-> NoWorld]
    /\ payload = [t \in Turns |-> None]
    /\ http = [t \in Turns |-> NoResponse]
    /\ tool_results = <<>>

Init ==
    /\ settings \in [DOUBAO_API_KEY : {"", "key"}]
    /\ pending = {1}
    /\ InitTurns

(***************************************************************************)
(* The steps of a turn.                                                    *)
(***************************************************************************)
\* run() with one state dict kept by the agent and used by every call
shared_state(states, t, s) == [u \in DOMAIN states |-> s]

\* run(), lines 243-254: a new state dict for this call; the dicts of the
\* other calls are other objects
own_state(states, t, s) == [states EXCEPT ![t] = s]

\* run(), lines 243-254: the initial state enters the graph at START
Run(t) ==
    /\ t \in pending
    /\ pc[t] = "idle"
    /\ \E user_input \in UserInputs,
          conversation_history \in Scope(Histories, NarrowHistories) :
          st' = own_state(st, t, initial_state(user_input, conversation_history))
    /\ pending' = pending \ {t}
    /\ pc' = [pc EXCEPT ![t] = "analyze_intent"]
    /\ UNCHANGED <<settings, minio_client, issued, trace, calls, writes,
                   intent_call, intent_result, search_world, chat_reply,
                   gen_world, payload, http, tool_results>>

\* the analyze_intent node and the conditional edge after it
AnalyzeIntent(t) ==
    /\ pc[t] = "analyze_intent"
    /\ \E llm \in Scope({LlmRaised} \cup { LlmReturned(c) : c \in ClassifierReplies },
                        NarrowClassifierReplies) :
          LET s == analyze_intent(st[t], llm)
          IN /\ st' = [st EXCEPT ![t] = s]
             /\ pc' = [pc EXCEPT ![t] = IntentEdges[route_after_intent(s)]]
             /\ intent_call' = [intent_call EXCEPT ![t] = intent_call_kind(llm)]
             /\ intent_result' = [intent_result EXCEPT ![t] = intent_call_result(llm)]
    /\ trace' = [trace EXCEPT ![t] = Append(@, "analyze_intent")]
    /\ calls' = [calls EXCEPT ![t] = Append(@, "llm")]
    /\ UNCHANGED <<settings, minio_client, issued, pending, writes, search_world,
                   chat_reply, gen_world, payload, http, tool_results>>

\* the outcomes _initialize can have in the state m
InitChoices(m) == IF m.initialized THEN {"ok"} ELSE InitOutcomes

\* uuid.uuid4() returns no value it has returned before
FreshUuids == Uuids \ issued

\* the value uuid.uuid4() returned in a call that reached put_object
Drawn(r, uuid) == IF Has(r.calls, "store.put_object") THEN {uuid} ELSE {}

\* the search_image node and its edge to generate_image; an exception of
\* the tool leaves the node, the graph and run()
SearchImage(t) ==
    /\ pc[t] = "search_image"
    /\ \E so \in Scope(SearchOutcomes, NarrowSearchOutcomes),
          o_init \in InitChoices(minio_client) \cap Scope(InitOutcomes, NarrowInitOutcomes),
          o_up \in Scope(UploadOutcomes, NarrowUploadOutcomes),
          uuid \in FreshUuids,
          o_init2 \in Scope(InitOutcomes, {"ok"}), o_sign \in SignOutcomes :
          LET r == ImageSearchTool_search_image(minio_client, st[t].search_query,
                       so, o_init, o_up, uuid, o_init2, o_sign)
          IN /\ IF r.raised
                THEN /\ pc' = [pc EXCEPT ![t] = "raised"]
                     /\ st' = st
                ELSE /\ pc' = [pc EXCEPT ![t] = Edges["search_image"]]
                     /\ st' = [st EXCEPT ![t] = search_image(@, r.ret)]
             /\ minio_client' = r.m
             /\ issued' = issued \cup Drawn(r, uuid)
             /\ calls' = [calls EXCEPT ![t] = @ \o r.calls]
             /\ search_world' = [search_world EXCEPT ![t] =
                    SearchWorld(minio_client, r.q, so, o_init, o_up, o_sign)]
    /\ trace' = [trace EXCEPT ![t] = Append(@, "search_image")]
    /\ UNCHANGED <<settings, pending, writes, intent_call, intent_result,
                   chat_reply, gen_world, payload, http, tool_results>>

\* the generate_image node and its edge to format_response; an exception of
\* the tool leaves the node, the graph and run()
GenerateImage(t) ==
    /\ pc[t] = "generate_image"
    /\ \E llm \in Scope(RefineReplies, NarrowRefineReplies),
          world \in Scope(GenWorlds, NarrowGenWorlds) :
          LET prompt == generation_prompt(st[t], llm)
              r == generate_image_call(prompt, reference_url(st[t]))
          IN /\ gen_world' = [gen_world EXCEPT ![t] =
                    [provider |-> world.provider, store |-> world.store,
                     prompt |-> prompt,
                     reference_image_url |-> reference_url(st[t]),
                     refine_raised |-> llm.raised,
                     tool_calls |-> gen_world[t].tool_calls + 1]]
             /\ IF r.raised
                THEN /\ pc' = [pc EXCEPT ![t] = "raised"]
                     /\ st' = st
                ELSE /\ pc' = [pc EXCEPT ![t] = Edges["generate_image"]]
                     /\ st' = [st EXCEPT ![t] = generate_image(@, r.ret)]
             /\ calls' = [calls EXCEPT ![t] = Append(@, "llm") \o r.calls]
    /\ trace' = [trace EXCEPT ![t] = Append(@, "generate_image")]
    /\ UNCHANGED <<settings, minio_client, issued, pending, writes, intent_call,
                   intent_result, search_world, chat_reply, payload, http,
                   tool_results>>

\* the normal_chat node and its edge to format_response; lines 195 and 198
\* assign state["response"]
NormalChat(t) ==
    /\ pc[t] = "normal_chat"
    /\ \E llm \in Scope(ChatReplies, NarrowChatReplies) :
          /\ st' = [st EXCEPT ![t] = normal_chat(@, llm)]
          /\ chat_reply' = [chat_reply EXCEPT ![t] =
                 [made |-> TRUE, raised |-> llm.raised, content |-> llm.content,
                  messages |-> chat_messages(st[t])]]
    /\ trace' = [trace EXCEPT ![t] = Append(@, "normal_chat")]
    /\ calls' = [calls EXCEPT ![t] = Append(@, "llm")]
    /\ writes' = [writes EXCEPT ![t] = Append(@, "normal_chat")]
    /\ pc' = [pc EXCEPT ![t] = Edges["normal_chat"]]
    /\ UNCHANGED <<settings, minio_client, issued, pending, intent_call,
                   intent_result, search_world, gen_world, payload, http,
                   tool_results>>

\* format_response that assigns state["response"] on both branches
format_response_assigns_always(s) == TRUE

\* format_response, lines 204 and 227: state["response"] is assigned on the
\* image branch only
format_response_assigns(s) == Truthy(s.need_image_generation)

\* the format_response node and its edge to END
FormatResponse(t) ==
    /\ pc[t] = "format_response"
    /\ st' = [st EXCEPT ![t] = format_response(@)]
    /\ trace' = [trace EXCEPT ![t] = Append(@, "format_response")]
    /\ writes' = [writes EXCEPT ![t] =
           IF format_response_assigns(st[t]) THEN Append(@, "format_response") ELSE @]
    /\ pc' = [pc EXCEPT ![t] = Edges["format_response"]]
    /\ UNCHANGED <<settings, minio_client, issued, pending, calls, intent_call,
                   intent_result, search_world, chat_reply, gen_world, payload,
                   http, tool_results>>

\* run(), lines 256-261: the graph has ended, run() returns its dict
Return(t) ==
    /\ pc[t] = "end"
    /\ payload' = [payload EXCEPT ![t] = run_result(st[t])]
    /\ pc' = [pc EXCEPT ![t] = "done"]
    /\ UNCHANGED <<settings, minio_client, issued, pending, st, trace, calls,
                   writes, intent_call, intent_result, search_world, chat_reply,
                   gen_world, http, tool_results>>

\* the chat endpoint answers: run() has returned or has raised
Chat(t) ==
    /\ pc[t] \in {"done", "raised"}
    /\ http[t] = NoResponse
    /\ http' = [http EXCEPT ![t] = chat(pc[t] = "raised", payload[t])]
    /\ UNCHANGED <<settings, minio_client, issued, pending, pc, st, trace, calls,
                   writes, intent_call, intent_result, search_world, chat_reply,
                   gen_world, payload, tool_results>>

Next ==
    \E t \in Turns :
        \/ Run(t)
        \/ AnalyzeIntent(t)
        \/ SearchImage(t)
        \/ GenerateImage(t)
        \/ NormalChat(t)
        \/ FormatResponse(t)
        \/ Return(t)
        \/ Chat(t)

Spec == Init /\ [][Next]_vars

(***************************************************************************)
(* format_response on its own: the node applied to every state of the      *)
(* image branch whose reference_image is a value the search tool can       *)
(* leave and whose generated_image is a value either generation function   *)
(* of the tool (generate_image, generate_image_simple) can leave.          *)
(***************************************************************************)
Unconnected == [client |-> FALSE, initialized |-> FALSE]

RefinedPrompts ==
    { generation_prompt(initial_state(<<>>, <<>>), llm) :
          llm \in RefineReplies \ {LlmRaised} }

ReferenceImages ==
    { search_image(initial_state(<<>>, <<>>),
                   ImageSearchTool_search_image(Unconnected, PyStr(<<"cat">>), so,
                       "ok", o_up, uuid, "ok", o_sign).ret).reference_image :
          so \in SearchOutcomes, o_up \in UploadOutcomes, uuid \in Uuids,
          o_sign \in SignOutcomes }

GeneratedImages ==
    { generate_image(initial_state(<<>>, <<>>),
                     ImageGenerationTool_generate_image(Unconnected, prompt, None,
                         api_key, go, "ok", o_up, uuid, "ok", o_sign).ret).generated_image :
          prompt \in RefinedPrompts, api_key \in {"", "key"}, go \in GenOutcomes,
          o_up \in UploadOutcomes, uuid \in Uuids, o_sign \in SignOutcomes }

FormatInit ==
    /\ settings \in [DOUBAO_API_KEY : {"", "key"}]
    /\ pending = {}
    /\ minio_client = Unconnected
    /\ issued = {}
    /\ pc = [t \in Turns |-> IF t = 1 THEN "format_response" ELSE "idle"]
    /\ \E reference_image \in ReferenceImages, generated_image \in GeneratedImages :
          st = [t \in Turns |->
                  IF t = 1
                  THEN [initial_state(<<"a cat picture please">>, <<>>) EXCEPT
                          !.need_image_generation = PyTrue,
                          !.search_query = PyStr(<<"cat">>),
                          !.reference_image = reference_image,
                          !.generated_image = generated_image]
                  ELSE initial_state(<<>>, <<>>)]
    /\ trace = [t \in Turns |-> <<>>]
    /\ calls = [t \in Turns |-> <<>>]
    /\ writes = [t \in Turns |-> <<>>]
    /\ intent_call = [t \in Turns |-> "none"]
    /\ intent_result = [t \in Turns |-> NoResult]
    /\ search_world = [t \in Turns |-> NoSearch]
    /\ chat_reply = [t \in Turns |-> NoCall]
    /\ gen_world = [t \in Turns |-> NoWorld]
    /\ payload = [t \in Turns |-> None]
    /\ http = [t \in Turns |-> NoResponse]
    /\ tool_results = <<>>

FormatNext ==
    \E t \in Turns :
        \/ FormatResponse(t)
        \/ Return(t)

FormatSpec == FormatInit /\ [][FormatNext]_vars

(***************************************************************************)
(* normal_chat on its own: the chat branch from the state analyze_intent   *)
(* leaves, with a conversation history of every length up to MaxHistory.   *)
(***************************************************************************)
AllHistories == { History(n) : n \in 0..MaxHistory }

\* a reply of the classifier that asks for no image
NoImageReply == LlmReturned(<<JsonObject(PyFalse, Missing)>>)

ChatInit ==
    /\ settings \in [DOUBAO_API_KEY : {"", "key"}]
    /\ pending = {}
    /\ minio_client = Unconnected
    /\ issued = {}
    /\ pc = [t \in Turns |-> IF t = 1 THEN "normal_chat" ELSE "idle"]
    /\ \E user_input \in UserInputs, conversation_history \in AllHistories :
          st = [t \in Turns |->
                  IF t = 1
                  THEN analyze_intent(initial_state(user_input, conversation_history),
                                      NoImageReply)
                  ELSE initial_state(<<>>, <<>>)]
    /\ trace = [t \in Turns |-> IF t = 1 THEN <<"analyze_intent">> ELSE <<>>]
    /\ calls = [t \in Turns |-> IF t = 1 THEN <<"llm">> ELSE <<>>]
    /\ writes = [t \in Turns |-> <<>>]
    /\ intent_call = [t \in Turns |->
                         IF t = 1 THEN intent_call_kind(NoImageReply) ELSE "none"]
    /\ intent_result = [t \in Turns |->
                           IF t = 1 THEN intent_call_result(NoImageReply)
                           ELSE NoResult]
    /\ search_world = [t \in Turns |-> NoSearch]
    /\ chat_reply = [t \in Turns |-> NoCall]
    /\ gen_world = [t \in Turns |-> NoWorld]
    /\ payload = [t \in Turns |-> None]
    /\ http = [t \in Turns |-> NoResponse]
    /\ tool_results = <<>>

ChatNext ==
    \E t \in Turns :
        \/ NormalChat(t)
        \/ FormatResponse(t)
        \/ Return(t)
        \/ Chat(t)

ChatSpec == ChatInit /\ [][ChatNext]_vars

(***************************************************************************)
(* The tools on their own: up to MaxToolCalls calls, one after the other,  *)
(* on the search tool and on the object store client, with every outcome   *)
(* of the external calls they make.                                        *)
(***************************************************************************)
\* what the store answered in a call on the client: the outcome of
\* _initialize (unasked when the client was initialized), whether self.client
\* is set after it, and the outcome of the rest
StoreWorld(m, o_init, outcome) ==
    [init |-> IF m.initialized THEN "unasked" ELSE o_init,
     client |-> MinIO_initialize(m, o_init).client,
     outcome |-> outcome]

\* the record of a call: the function called, what it was answered, whether
\* it raised, what it returned and the external calls it made
ToolResult(op, world, r) ==
    [op |-> op, world |-> world, raised |-> r.raised, ret |-> r.ret,
     calls |-> r.calls]

ToolInit ==
    /\ settings \in [DOUBAO_API_KEY : {"", "key"}]
    /\ pending = {}
    /\ InitTurns

\* the call ends: the client, the values uuid4 has returned and the record
ToolCallEnds(op, world, r, uuid) ==
    /\ minio_client' = r.m
    /\ issued' = issued \cup Drawn(r, uuid)
    /\ tool_results' = Append(tool_results, ToolResult(op, world, r))
    /\ UNCHANGED <<settings, pending, pc, st, trace, calls, writes, intent_call,
                   intent_result, search_world, chat_reply, gen_world, payload,
                   http>>

\* image_search_tool.search_image(query)
CallSearchImage ==
    /\ Len(tool_results) < MaxToolCalls
    /\ \E so \in SearchOutcomes, o_init \in InitChoices(minio_client),
          o_up \in UploadOutcomes, uuid \in FreshUuids,
          o_init2 \in InitOutcomes, o_sign \in SignOutcomes :
          LET query == PyStr(<<"cat">>)
              r == ImageSearchTool_search_image(minio_client, query, so, o_init,
                       o_up, uuid, o_init2, o_sign)
          IN ToolCallEnds("search_image",
                 SearchWorld(minio_client, r.q, so, o_init, o_up, o_sign), r, uuid)

\* minio_client.upload_image_from_url(image_url)
CallUploadImageFromUrl ==
    /\ Len(tool_results) < MaxToolCalls
    /\ \E image_url \in ImageUrls, o_init \in InitChoices(minio_client),
          o_up \in UploadOutcomes, uuid \in FreshUuids :
          ToolCallEnds("upload_image_from_url",
              StoreWorld(minio_client, o_init, o_up),
              upload_image_from_url(minio_client, image_url, "images", o_init,
                                    o_up, uuid),
              uuid)

\* minio_client.upload_image_from_bytes(image_data)
CallUploadImageFromBytes ==
    /\ Len(tool_results) < MaxToolCalls
    /\ \E o_init \in InitChoices(minio_client), o_put \in BytesOutcomes,
          uuid \in FreshUuids :
          ToolCallEnds("upload_image_from_bytes",
              StoreWorld(minio_client, o_init, o_put),
              upload_image_from_bytes(minio_client, "images", ".jpg", o_init,
                                      o_put, uuid),
              uuid)

\* minio_client.get_image_url(object_name)
CallGetImageUrl ==
    /\ Len(tool_results) < MaxToolCalls
    /\ \E o_init \in InitChoices(minio_client), o_sign \in SignOutcomes :
          ToolCallEnds("get_image_url",
              StoreWorld(minio_client, o_init, o_sign),
              get_image_url(minio_client, PyStr(<<"images", "/", "object", ".jpg">>),
                            o_init, o_sign),
              "")

ToolNext ==
    \/ CallSearchImage
    \/ CallUploadImageFromUrl
    \/ CallUploadImageFromBytes
    \/ CallGetImageUrl

ToolSpec == ToolInit /\ [][ToolNext]_vars

(***************************************************************************)
(* The generation tool on its own: up to MaxToolCalls calls of              *)
(* generate_image, one after the other, over the one object store client,  *)
(* with every answer of the provider and of the store.                     *)
(***************************************************************************)
Prompts == { PyStr(<<"a detailed prompt">>), None }
ReferenceUrls == { None, PyStr(<<"https://minio/reference">>) }

\* what a call of generate_image was given and answered: the key, the prompt,
\* the answer of the provider, what upload_image_from_url returned for the
\* provider's URL and what get_image_url returned for that handle (None when
\* the call was not made)
GenToolWorld(m, api_key, prompt, go, o_init, o_up, uuid, o_init2, o_sign) ==
    LET asked == api_key # "" /\ go.kind = "image" /\ go.url # <<>>
        up == upload_image_from_url(m, go.url, "generated-images", o_init,
                                    o_up, uuid)
        stored == asked /\ Truthy(up.ret)
    IN [api_key |-> api_key,
        prompt |-> prompt,
        provider |-> go,
        upload |-> IF asked THEN up.ret ELSE None,
        sign |-> IF stored THEN o_sign ELSE "unasked",
        signed |-> IF stored
                   THEN get_image_url(up.m, up.ret, o_init2, o_sign).ret
                   ELSE None]

\* the answers of the store to choose from: the store is asked only when the
\* provider has answered with an image
Asked(go, outcomes) == IF go.kind = "image" THEN outcomes ELSE {"ok"}

\* image_generation_tool.generate_image(prompt, reference_image_url)
CallGenerateImage ==
    /\ Len(tool_results) < MaxToolCalls
    /\ \E prompt \in Prompts, reference_image_url \in ReferenceUrls,
          go \in GenOutcomes, uuid \in FreshUuids :
       \E o_init \in Asked(go, InitChoices(minio_client)),
          o_up \in Asked(go, UploadOutcomes),
          o_init2 \in Asked(go, InitOutcomes),
          o_sign \in Asked(go, SignOutcomes) :
          ToolCallEnds("generate_image",
              GenToolWorld(minio_client, settings.DOUBAO_API_KEY, prompt, go,
                           o_init, o_up, uuid, o_init2, o_sign),
              ImageGenerationTool_generate_image(minio_client, prompt,
                  reference_image_url, settings.DOUBAO_API_KEY, go, o_init,
                  o_up, uuid, o_init2, o_sign),
              uuid)

GenToolNext == CallGenerateImage

GenToolSpec == ToolInit /\ [][GenToolNext]_vars

(***************************************************************************)
(* Two requests at a time: two calls of run() on the one agent, their node *)
(* steps interleaved in every order, over the one object store client.     *)
(***************************************************************************)
ConcInit ==
    /\ settings = [DOUBAO_API_KEY |-> "key"]
    /\ pending = Turns
    /\ InitTurns

ConcSpec == ConcInit /\ [][Next]_vars

(***************************************************************************)
(* The claims.                                                             *)
(***************************************************************************)
\* the classifier has run in turn t
Classified(t) == Count(trace[t], "analyze_intent") > 0

\* turn t is on the image branch
ImageBranch(t) == Truthy(st[t].need_image_generation)

\* format_response has run in turn t
Formatted(t) == pc[t] \in {"end", "done"}

Success(d) == Truthy(Get(d, "success", None))

\* C1: in a turn whose classifier leaves need_image_generation false, the
\* search_image and generate_image nodes never run, no search-provider,
\* generation-provider or object-store call is made, and the response run()
\* returns is the text the conversational model call returned, unmodified.
C1_ChatBranchVerbatim ==
    \A t \in Turns :
        (Classified(t) /\ ~ImageBranch(t)) =>
            /\ Count(trace[t], "search_image") = 0
            /\ Count(trace[t], "generate_image") = 0
            /\ \A i \in 1..Len(calls[t]) : calls[t][i] = "llm"
            /\ pc[t] = "done" =>
                  /\ chat_reply[t].made
                  /\ ~chat_reply[t].raised =>
                        payload[t].response = chat_reply[t].content

\* a turn of the chat branch has returned a reply that has whitespace around it
C1_Witness ==
    \E t \in Turns :
        /\ pc[t] = "done"
        /\ ~ImageBranch(t)
        /\ chat_reply[t].made /\ ~chat_reply[t].raised
        /\ chat_reply[t].content = <<SP, "hi", NL, "there", NL>>
        /\ payload[t].response = <<SP, "hi", NL, "there", NL>>

\* C2: in a turn whose classifier sets need_image_generation true, the
\* search_image node and the generate_image node each run exactly once, search
\* before generation, whatever succeeds or fails.
C2_SearchThenGenerateOnce ==
    \A t \in Turns :
        (Classified(t) /\ ImageBranch(t)) =>
            /\ Count(trace[t], "search_image") <= 1
            /\ Count(trace[t], "generate_image") <= 1
            /\ Count(trace[t], "generate_image") = 1 =>
                  /\ Count(trace[t], "search_image") = 1
                  /\ IndexOf(trace[t], "search_image")
                         < IndexOf(trace[t], "generate_image")
            /\ pc[t] \in {"format_response", "end", "done", "raised"} =>
                  /\ Count(trace[t], "search_image") = 1
                  /\ Count(trace[t], "generate_image") = 1

\* a turn of the image branch has ended after a failed search
C2_Witness ==
    \E t \in Turns :
        /\ pc[t] = "done"
        /\ ImageBranch(t)
        /\ st[t].reference_image = EmptyDict
        /\ ~Success(st[t].generated_image)
        /\ trace[t] = <<"analyze_intent", "search_image", "generate_image",
                        "format_response">>

\* C3: whatever the model, the providers and the store answer, a turn visits
\* analyze_intent first, no node twice, format_response once and last, and
\* returns a payload; no exception leaves a node or run().
C3_TurnRunsToFormat ==
    \A t \in Turns :
        /\ pc[t] # "raised"
        /\ trace[t] # <<>> => trace[t][1] = "analyze_intent"
        /\ \A n \in Nodes : Count(trace[t], n) <= 1
        /\ pc[t] = "done" =>
              /\ trace[t][Len(trace[t])] = "format_response"
              /\ payload[t] # None

\* C4: when the classification call raises or its reply is no JSON,
\* analyze_intent sets need_image_generation to False and raises nothing, the
\* turn goes through normal_chat and format_response only, and run() returns
\* a payload whose need_image_generation is False.
C4_ClassifierFailsSafe ==
    \A t \in Turns :
        intent_call[t] \in {"raised", "unparsable"} =>
            /\ st[t].need_image_generation = PyFalse
            /\ pc[t] \in {"normal_chat", "format_response", "end", "done"}
            /\ pc[t] = "normal_chat" => ENABLED NormalChat(t)
            /\ pc[t] = "format_response" => ENABLED FormatResponse(t)
            /\ pc[t] = "end" => ENABLED Return(t)
            /\ pc[t] = "done" =>
                  /\ trace[t] = <<"analyze_intent", "normal_chat", "format_response">>
                  /\ payload[t] # None
                  /\ payload[t].need_image_generation = PyFalse

\* a turn whose classification call raised has returned its payload
C4_Witness ==
    \E t \in Turns :
        /\ intent_call[t] = "raised"
        /\ pc[t] = "done"
        /\ payload[t] # None

\* C5: in a turn of the image branch in which the generation provider returns
\* an image URL and the object store does not store it, generated_image has
\* success True and presigned_url equal to the URL of the provider.
C5_DegradedSuccessInTurn ==
    \A t \in Turns :
        ( /\ pc[t] = "done"
          /\ ImageBranch(t)
          /\ settings.DOUBAO_API_KEY # ""
          /\ gen_world[t].provider.kind = "image"
          /\ gen_world[t].store = "upload_fails" ) =>
            /\ Get(payload[t].generated_image, "success", None) = PyTrue
            /\ Get(payload[t].generated_image, "presigned_url", None)
                   = PyStr(gen_world[t].provider.url)

\* an image result: success with a non-empty retrieval URL, or no success
\* and no retrieval URL
ImageResultOk(d) ==
    LET url == Get(d, "presigned_url", None)
    IN /\ Success(d) => (url.k = "str" /\ url.s # <<>>)
       /\ ~Success(d) => url = None

\* C6: every reference_image and generated_image, in the turn state and in
\* the payload run() returns, has a non-empty presigned_url when success is
\* true and none when success is false, also when the upload succeeds and
\* get_image_url fails.
C6_SuccessHasUrl ==
    \A t \in Turns :
        /\ ImageResultOk(st[t].reference_image)
        /\ ImageResultOk(st[t].generated_image)
        /\ pc[t] = "done" =>
              /\ ImageResultOk(payload[t].reference_image)
              /\ ImageResultOk(payload[t].generated_image)

\* the lines of the response of turn t
ResponseLines(t) == Lines(st[t].response)

\* the places of the lines that start with the phrase
LinesStarting(lines, phrase) ==
    { i \in 1..Len(lines) : lines[i] # <<>> /\ lines[i][1] = phrase }

\* the places of the lines that are the phrase
LinesEqual(lines, phrase) == { i \in 1..Len(lines) : lines[i] = <<phrase>> }

\* C7: on the image branch, for every combination of reference_image and
\* generated_image succeeding or not, the response holds exactly one of the
\* found line and the not-found line, exactly one of the generation-succeeded
\* block and the generation-failed line, the reference part first; which of
\* each pair it holds is decided by the success of that image.
C7_OneReferencePartOneGenerationPart ==
    \A t \in Turns :
        (Formatted(t) /\ ImageBranch(t)) =>
            LET lines == ResponseLines(t)
                found == LinesStarting(lines, FoundPrefix)
                notFound == LinesEqual(lines, NotFoundLine)
                genOk == LinesEqual(lines, GenOkLine)
                genFail == LinesEqual(lines, GenFailLine)
            IN /\ Cardinality(found \cup notFound) = 1
               /\ Cardinality(genOk \cup genFail) = 1
               /\ \A i \in found \cup notFound :
                      \A j \in genOk \cup genFail : i < j
               /\ Success(st[t].reference_image) <=> found # {}
               /\ Success(st[t].generated_image) <=> genOk # {}
               /\ \A i \in found :
                      /\ i < Len(lines)
                      /\ \E j \in LinesStarting(lines, RefLinkPrefix) :
                             /\ i < j
                             /\ \A h \in genOk \cup genFail : j < h
               /\ \A i \in genOk :
                      /\ i + 2 <= Len(lines)
                      /\ lines[i + 1][1] = GenLinkPrefix
                      /\ lines[i + 2][1] = GenPromptPrefix

\* format_response has run on a found reference image and a generated image
C7_Witness ==
    \E t \in Turns :
        /\ Formatted(t)
        /\ ImageBranch(t)
        /\ Success(st[t].reference_image)
        /\ Success(st[t].generated_image)
        /\ LinesStarting(ResponseLines(t), FoundPrefix) # {}
        /\ LinesEqual(ResponseLines(t), GenOkLine) # {}

\* the lines the reference part has: the found line and the link line, or
\* the not-found line
ReferenceLines(reference_image) ==
    IF Success(reference_image)
    THEN << <<FoundPrefix>> \o Get(reference_image, "title", None).s,
            <<RefLinkPrefix>> \o Get(reference_image, "presigned_url", None).s >>
    ELSE << <<NotFoundLine>> >>

\* the lines the generation part has: the success line, the link line and
\* the prompt line, or the failure line
GenerationLines(generated_image) ==
    IF Success(generated_image)
    THEN << <<GenOkLine>>,
            <<GenLinkPrefix>> \o Get(generated_image, "presigned_url", None).s,
            <<GenPromptPrefix>> \o Get(generated_image, "prompt", None).s >>
    ELSE << <<GenFailLine>> >>

\* C8 as stated: the response is the lines of the reference part, then the
\* lines of the generation part, joined by single newlines, and no other
\* line, an empty one included, stands between them.
C8_ExactLinesNoEmptyLine ==
    \A t \in Turns :
        (Formatted(t) /\ ImageBranch(t)) =>
            st[t].response =
                Join(ReferenceLines(st[t].reference_image)
                     \o GenerationLines(st[t].generated_image), NL)

\* C8 as amended: the response is the lines of the reference part, then one
\* empty line, then the lines of the generation part, joined by single
\* newlines; when neither the title nor the prompt holds a newline these are
\* all the lines of the response.
C8_ExactLinesOneEmptyLine ==
    \A t \in Turns :
        (Formatted(t) /\ ImageBranch(t)) =>
            LET expected == ReferenceLines(st[t].reference_image)
                            \o << <<>> >>
                            \o GenerationLines(st[t].generated_image)
            IN /\ st[t].response = Join(expected, NL)
               /\ (\A i \in 1..Len(expected) : ~Has(expected[i], NL)) =>
                      ResponseLines(t) = expected

\* format_response has run on a found reference image with a one-line title
\* and a generated image with a one-line prompt: six lines, the third empty
C8_Witness ==
    \E t \in Turns :
        /\ Formatted(t)
        /\ ImageBranch(t)
        /\ Success(st[t].reference_image)
        /\ Success(st[t].generated_image)
        /\ Len(ResponseLines(t)) = 6
        /\ ResponseLines(t)[3] = <<>>

\* search_query is a non-empty str
Populated(v) == v.k = "str" /\ v.s # <<>>

\* C9: in a turn whose classifier returns need_image true with a search
\* query and whose reference search and generation both succeed, both image
\* nodes run and the response holds the four lines in the fixed order: the
\* found line, the reference link, the generation-succeeded line, the
\* generated link.
C9_FourLinesWhenBothSucceed ==
    \A t \in Turns :
        ( /\ pc[t] = "done"
          /\ ImageBranch(t)
          /\ Populated(st[t].search_query)
          /\ Success(st[t].reference_image)
          /\ settings.DOUBAO_API_KEY # ""
          /\ gen_world[t].provider.kind = "image" ) =>
            /\ Count(trace[t], "search_image") = 1
            /\ Count(trace[t], "generate_image") = 1
            /\ LET lines == Lines(payload[t].response)
               IN \E i, j, k, l \in 1..Len(lines) :
                      /\ i < j /\ j < k /\ k < l
                      /\ lines[i] # <<>> /\ lines[i][1] = FoundPrefix
                      /\ lines[j] # <<>> /\ lines[j][1] = RefLinkPrefix
                      /\ lines[k] = <<GenOkLine>>
                      /\ lines[l] # <<>> /\ lines[l][1] = GenLinkPrefix

\* C10: after the classifier has run, and in the turn a payload is returned
\* for, search_query is populated exactly when need_image_generation is true.
C10_QueryIffNeedImage ==
    \A t \in Turns :
        Classified(t) => (Populated(st[t].search_query) <=> ImageBranch(t))

\* C11 as stated: in every turn that completes, state["response"] has been
\* assigned exactly once, by format_response, and the response is non-empty,
\* on both branches and for every model reply, an empty one included.
C11_SetOnceByFormatNonEmpty ==
    \A t \in Turns :
        pc[t] = "done" =>
            /\ writes[t] = <<"format_response">>
            /\ payload[t].response # <<>>

\* C11 as amended: state["response"] is assigned at most once in a turn; in
\* a turn that completes it has been assigned exactly once, by
\* format_response on the image branch and by normal_chat on the chat branch,
\* and the response returned is that value; it is non-empty on the image
\* branch, and on the chat branch it is empty exactly when the reply of the
\* conversational model is empty.
C11_SetOnceByBranchNode ==
    \A t \in Turns :
        /\ Len(writes[t]) <= 1
        /\ pc[t] = "done" =>
              /\ writes[t] = << IF ImageBranch(t) THEN "format_response"
                                ELSE "normal_chat" >>
              /\ payload[t].response = st[t].response
              /\ ImageBranch(t) => payload[t].response # <<>>
              /\ ~ImageBranch(t) =>
                    (payload[t].response = <<>>
                        <=> (~chat_reply[t].raised /\ chat_reply[t].content = <<>>))

\* a turn of the chat branch whose conversational model replied with the
\* empty text has completed with an empty response assigned by normal_chat
C11_Witness ==
    \E t \in Turns :
        /\ pc[t] = "done"
        /\ ~ImageBranch(t)
        /\ chat_reply[t].made /\ ~chat_reply[t].raised
        /\ chat_reply[t].content = <<>>
        /\ writes[t] = <<"normal_chat">>
        /\ payload[t].response = <<>>

\* the answers of the search provider that hold no image URL
SearchFailureKinds ==
    {"http_error", "timeout", "raises", "no_images", "no_url", "empty_url"}

\* C12: when the search provider answers with an HTTP error, a timeout, no
\* image, or a first image whose URL is missing or empty, the search tool
\* raises nothing to the search_image node: the node ends, the turn goes on
\* to generate_image, and reference_image is the empty dict, which has no
\* success flag, in the state and in the payload.
C12_SearchFailureIsNoResult ==
    \A t \in Turns :
        (search_world[t].asked /\ search_world[t].provider.kind \in SearchFailureKinds) =>
            /\ st[t].reference_image = EmptyDict
            /\ ~Success(st[t].reference_image)
            /\ Count(calls[t], "http.get") = 0
            /\ \/ pc[t] \in {"generate_image", "format_response", "end", "done"}
               \/ pc[t] = "raised" /\ Count(trace[t], "generate_image") = 1
            /\ pc[t] = "done" => payload[t].reference_image = EmptyDict

\* a turn whose search provider timed out has completed
C12_Witness ==
    \E t \in Turns :
        /\ pc[t] = "done"
        /\ search_world[t].asked
        /\ search_world[t].provider.kind = "timeout"
        /\ payload[t].reference_image = EmptyDict

\* C13: when the search provider returns an image URL and the image is not
\* stored (no client, the download or put_object fails), reference_image is
\* the empty dict: no success, no minio_path, no presigned_url; and the
\* response format_response builds holds the not-found line and no found
\* line.
C13_UnstoredImageIsNotFound ==
    \A t \in Turns :
        ( /\ search_world[t].asked
          /\ search_world[t].provider.kind = "image"
          /\ search_world[t].upload # "ok" ) =>
            /\ st[t].reference_image = EmptyDict
            /\ ~Success(st[t].reference_image)
            /\ Get(st[t].reference_image, "minio_path", None) = None
            /\ Get(st[t].reference_image, "presigned_url", None) = None
            /\ Formatted(t) =>
                  /\ Cardinality(LinesEqual(ResponseLines(t), NotFoundLine)) = 1
                  /\ LinesStarting(ResponseLines(t), FoundPrefix) = {}
                  /\ LinesStarting(ResponseLines(t), RefLinkPrefix) = {}

\* a turn whose search provider returned an image that put_object refused
\* has completed with the not-found line
C13_Witness ==
    \E t \in Turns :
        /\ pc[t] = "done"
        /\ search_world[t].provider.kind = "image"
        /\ search_world[t].upload = "put_raises"
        /\ Count(calls[t], "store.put_object") = 1
        /\ LinesEqual(Lines(payload[t].response), NotFoundLine) # {}

\* the external calls a turn makes
ExternalCalls ==
    {"llm", "search_provider", "generation_provider", "http.get",
     "store.bucket_exists", "store.put_object", "store.presigned_get_object"}

\* the calls of the list, the model calls apart, are made at most once each
\* in turn t
OnceEach(t, names) == \A c \in names : Count(calls[t], c) <= 1

\* the model calls of turn t: the classification call first and once, then
\* at most one more, the conversational call or the refinement call
ModelCalls(t) ==
    /\ Classified(t) => calls[t][1] = "llm"
    /\ Count(calls[t], "llm") <= 2
    /\ Count(calls[t], "llm") = 2 =>
          Count(trace[t], "normal_chat") + Count(trace[t], "generate_image") = 1
    /\ pc[t] \in {"search_image", "normal_chat"} => Count(calls[t], "llm") = 1

\* C14 as stated: in a turn no external call is made twice: one
\* classification call, at most one more model call, and every call to the
\* search provider, the generation provider and the object store at most
\* once, whatever fails.
C14_EveryCallAtMostOnce ==
    \A t \in Turns :
        /\ ModelCalls(t)
        /\ OnceEach(t, ExternalCalls \ {"llm"})

\* C14 as amended: one classification call, at most one more model call, at
\* most one call to the search provider, to the generation provider, of the
\* download, of put_object and of presigned_get_object; the bucket check of
\* the store is made at most twice, the second time by get_image_url after
\* the check made for the upload ended in an exception.
C14_OnceButBucketCheck ==
    \A t \in Turns :
        /\ ModelCalls(t)
        /\ OnceEach(t, ExternalCalls \ {"llm", "store.bucket_exists"})
        /\ Count(calls[t], "store.bucket_exists") <= 2
        /\ Count(calls[t], "store.bucket_exists") = 2 =>
              /\ Count(calls[t], "store.put_object") = 1
              /\ IndexOf(calls[t], "store.bucket_exists")
                     < IndexOf(calls[t], "store.put_object")

\* a turn has made the bucket check twice: before the upload, where it
\* raised, and before the signing
C14_Witness ==
    \E t \in Turns :
        /\ pc[t] = "done"
        /\ calls[t] = <<"llm", "search_provider", "store.bucket_exists", "http.get",
                        "store.put_object", "store.bucket_exists",
                        "store.presigned_get_object", "llm">>

\* C20: when the JSON object of the classifier has a truthy need_image and
\* no search_query, the search_query of the turn is the user input, and the
\* query sent to the reference search is the user input.
C20_MissingQueryIsUserInput ==
    \A t \in Turns :
        ( /\ intent_result[t].kind = "object"
          /\ Truthy(intent_result[t].need_image)
          /\ intent_result[t].search_query = Missing ) =>
            /\ st[t].search_query = PyStr(st[t].user_input)
            /\ search_world[t].asked =>
                  search_world[t].query = PyStr(st[t].user_input)
            /\ pc[t] \in {"generate_image", "format_response", "end", "done"} =>
                  search_world[t].asked

\* the reference search has been asked for the user input in a turn whose
\* classifier gave no search_query
C20_Witness ==
    \E t \in Turns :
        /\ intent_result[t].kind = "object"
        /\ intent_result[t].need_image = PyTrue
        /\ intent_result[t].search_query = Missing
        /\ search_world[t].asked
        /\ search_world[t].query = PyStr(<<"a cat picture please">>)
        /\ st[t].user_input = <<"a cat picture please">>

\* every model call of turn t has failed: the classification call and the
\* conversational call that follows it
AllModelCallsFailed(t) ==
    /\ intent_call[t] = "raised"
    /\ chat_reply[t].made
    /\ chat_reply[t].raised

\* C15 as stated: when every model call of a turn fails, the classification
\* call included, run() raises and the chat endpoint answers with an error
\* and no message.
C15_UnreachableModelIsError ==
    \A t \in Turns :
        (AllModelCallsFailed(t) /\ http[t] # NoResponse) =>
            /\ pc[t] = "raised"
            /\ http[t].status = 500

\* C15 as amended: when every model call of a turn fails, run() raises
\* nothing: the classification defaults to the chat branch, normal_chat sets
\* the apology, run() returns a payload whose response is the apology, and
\* the chat endpoint answers 200 with the apology as its message; the
\* endpoint answers 500 exactly when run() raised.
C15_UnreachableModelIsApology ==
    \A t \in Turns :
        /\ intent_call[t] = "raised" =>
              pc[t] \in {"normal_chat", "format_response", "end", "done"}
        /\ (AllModelCallsFailed(t) /\ http[t] # NoResponse) =>
              /\ pc[t] = "done"
              /\ payload[t].response = Apology
              /\ http[t] = [status |-> 200, message |-> PyStr(Apology)]
        /\ http[t] # NoResponse => (http[t].status = 500 <=> pc[t] = "raised")

\* the chat endpoint has answered a turn in which both model calls failed
C15_Witness ==
    \E t \in Turns :
        /\ AllModelCallsFailed(t)
        /\ trace[t] = <<"analyze_intent", "normal_chat", "format_response">>
        /\ http[t].status = 200
        /\ http[t].message = PyStr(Apology)

\* C16: in a turn whose generate_image node has run while the generation
\* provider is unreachable (HTTP error, timeout, another error) or no API key
\* is configured, generated_image has success False and carries the prompt
\* the node handed to the tool.
C16_FailedGenerationCarriesPrompt ==
    \A t \in Turns :
        ( /\ Count(trace[t], "generate_image") = 1
          /\ \/ settings.DOUBAO_API_KEY = ""
             \/ gen_world[t].provider.kind \in {"http_error", "timeout", "raises"} ) =>
            /\ Get(st[t].generated_image, "success", None) = PyFalse
            /\ Get(st[t].generated_image, "prompt", None) = gen_world[t].prompt

\* the storage handle a call returned: the minio_path of a search result,
\* the object name of an upload; None when there is none
Handle(r) ==
    IF r.op = "search_image"
    THEN (IF DictTruthy(r.ret) THEN Get(r.ret, "minio_path", None) ELSE None)
    ELSE IF r.op = "get_image_url" THEN None
    ELSE r.ret

\* C17: uuid4 returning no value twice, no two calls that stored an image
\* return the same storage handle; two calls of the reference search with
\* the same query, answered by the provider with the same image and by a
\* working store, both succeed, each with an upload of its own, with the
\* same fields and distinct minio_path.
C17_HandlesDistinct ==
    \A i, j \in 1..Len(tool_results) :
        i < j =>
            LET a == tool_results[i]
                b == tool_results[j]
            IN /\ (Handle(a) # None /\ Handle(b) # None) => Handle(a) # Handle(b)
               /\ \A r \in {a, b} :
                      ( /\ r.op = "search_image"
                        /\ r.world.provider.kind = "image"
                        /\ r.world.upload = "ok" ) =>
                          /\ Success(r.ret)
                          /\ Count(r.calls, "store.put_object") = 1
               /\ ( /\ a.op = "search_image" /\ b.op = "search_image"
                    /\ a.world.query = b.world.query
                    /\ a.world.provider = b.world.provider
                    /\ Success(a.ret) /\ Success(b.ret) ) =>
                      /\ DOMAIN a.ret = DOMAIN b.ret
                      /\ a.ret.original_url = b.ret.original_url
                      /\ a.ret.minio_path # b.ret.minio_path

\* the reference search has been called twice with the same query and the
\* same answer of the provider, and both calls succeeded
C17_Witness ==
    /\ Len(tool_results) >= 2
    /\ tool_results[1].op = "search_image" /\ tool_results[2].op = "search_image"
    /\ tool_results[1].world.query = tool_results[2].world.query
    /\ tool_results[1].world.provider = tool_results[2].world.provider
    /\ Success(tool_results[1].ret) /\ Success(tool_results[2].ret)
    /\ tool_results[1].ret.minio_path # tool_results[2].ret.minio_path

\* the functions of the object store client
StoreOps == {"upload_image_from_url", "upload_image_from_bytes", "get_image_url"}

\* C19: for every outcome of the construction of the client, the bucket
\* check, the download, put_object and the signing, upload_image_from_url,
\* upload_image_from_bytes and get_image_url raise nothing and return a
\* non-empty str or None; they return None exactly when no client is set
\* after _initialize or the download, put_object or the signing failed.
C19_StoreNeverRaises ==
    \A i \in 1..Len(tool_results) :
        LET r == tool_results[i]
        IN r.op \in StoreOps =>
              /\ ~r.raised
              /\ r.ret = None \/ (r.ret.k = "str" /\ r.ret.s # <<>>)
              /\ r.ret = None <=> (~r.world.client \/ r.world.outcome # "ok")

\* each of the three functions has returned None after a failure: the
\* construction of the client, put_object, the signing
C19_Witness ==
    /\ \E i \in 1..Len(tool_results) :
          /\ tool_results[i].op = "upload_image_from_url"
          /\ tool_results[i].world.outcome = "put_raises"
          /\ Count(tool_results[i].calls, "store.put_object") = 1
          /\ tool_results[i].ret = None
    /\ \E i \in 1..Len(tool_results) :
          /\ tool_results[i].op \in {"upload_image_from_bytes", "get_image_url"}
          /\ tool_results[i].world.init = "constructor_raises"
          /\ ~tool_results[i].world.client
          /\ ~tool_results[i].raised
          /\ tool_results[i].ret = None

\* what belongs to turn t: its Turn State and what is recorded about it
TurnVars(t) ==
    <<pc[t], st[t], trace[t], calls[t], writes[t], intent_call[t],
      intent_result[t], search_world[t], chat_reply[t], gen_world[t],
      payload[t], http[t]>>

\* a step changes what belongs to one turn at most
OneTurnSteps ==
    \A t, u \in Turns :
        (t # u /\ TurnVars(u)' # TurnVars(u)) => TurnVars(t)' = TurnVars(t)

\* the states the object store client can be in when a turn starts
StoreStates ==
    { [client |-> FALSE, initialized |-> FALSE],
      [client |-> TRUE, initialized |-> FALSE],
      [client |-> TRUE, initialized |-> TRUE] }

\* the states analyze_intent leaves, alone, on the input of turn t when the
\* classification call goes as it went in turn t
AloneAnalyzed(t) ==
    { analyze_intent(initial_state(st[t].user_input, st[t].messages), llm) :
          llm \in { l \in NarrowClassifierReplies :
                       /\ intent_call_kind(l) = intent_call[t]
                       /\ intent_call_result(l) = intent_result[t] } }

\* the states search_image leaves, alone, from s when the provider and the
\* store answer as they answered turn t
AloneSearched(s, t) ==
    LET w == search_world[t]
        o_up == IF w.upload \in UploadOutcomes THEN w.upload ELSE "ok"
        o_sign == IF w.sign \in SignOutcomes THEN w.sign ELSE "ok"
    IN { search_image(s, ImageSearchTool_search_image(c[1], s.search_query,
                             w.provider, c[2], o_up, c[3], "ok", o_sign).ret) :
             c \in { d \in StoreStates \X InitOutcomes \X Uuids :
                        SearchWorld(d[1], s.search_query, w.provider, d[2],
                                    o_up, o_sign) = w } }

\* the states generate_image leaves, alone, from s when the refinement call
\* yields the prompt it yielded in turn t
AloneGenerated(s, t) ==
    { generate_image(s, generate_image_call(generation_prompt(s, llm),
                                            reference_url(s)).ret) :
          llm \in { l \in NarrowRefineReplies :
                       generation_prompt(s, l) = gen_world[t].prompt } }

\* the state normal_chat leaves, alone, from s when the conversational call
\* goes as it went in turn t
AloneChatted(s, t) ==
    normal_chat(s, [raised |-> chat_reply[t].raised,
                    content |-> chat_reply[t].content])

\* the payloads run() returns for the input of turn t when it runs alone
\* and its calls are answered as they were answered in turn t
AlonePayloads(t) ==
    UNION { IF Truthy(s1.need_image_generation)
            THEN UNION { { run_result(format_response(s3)) :
                              s3 \in AloneGenerated(s2, t) } :
                         s2 \in AloneSearched(s1, t) }
            ELSE { run_result(format_response(AloneChatted(s1, t))) } :
            s1 \in AloneAnalyzed(t) }

\* C18: with two turns running at once on the one agent and the one object
\* store client, in every interleaving of their node steps, a step of one
\* turn leaves the Turn State of the other turn, and all that is recorded
\* about it, unchanged, and the payload a turn returns is the payload run()
\* returns alone on the same input with the same answers to its own calls.
C18_TurnsIsolated ==
    /\ [](\A t \in Turns : pc[t] = "done" => payload[t] \in AlonePayloads(t))
    /\ [][OneTurnSteps]_vars

\* both turns are between search_image and generate_image at once, each with
\* a stored reference image of its own; turn 2 made the bucket check of the
\* shared client, turn 1 did not
C18_Witness ==
    /\ pc[1] = "generate_image" /\ pc[2] = "generate_image"
    /\ Success(st[1].reference_image) /\ Success(st[2].reference_image)
    /\ st[1].reference_image.minio_path # st[2].reference_image.minio_path
    /\ st[1].user_input # st[2].user_input
    /\ Count(calls[2], "store.bucket_exists") = 1
    /\ Count(calls[1], "store.bucket_exists") = 0

\* C21: in a turn whose prompt-refinement call raised, the generate_image
\* node ends without an exception, it has called the generation tool once,
\* with the search_query of the turn as the prompt, and with the retrieval
\* URL of the reference image when the reference search succeeded and None
\* when it did not.
C21_RefinementFailureFallsBack ==
    \A t \in Turns :
        gen_world[t].refine_raised =>
            /\ pc[t] # "raised"
            /\ gen_world[t].tool_calls = 1
            /\ gen_world[t].prompt = st[t].search_query
            /\ Success(st[t].reference_image) =>
                  /\ gen_world[t].reference_image_url.k = "str"
                  /\ gen_world[t].reference_image_url
                         = st[t].reference_image.presigned_url
            /\ ~Success(st[t].reference_image) =>
                  gen_world[t].reference_image_url = None

\* C22: when the conversational model call raises, normal_chat raises
\* nothing, the turn goes on to format_response and the response, in the
\* state and in the payload, is the apology; when the call returns, the
\* response is the reply, so it is the apology only when the reply is.
C22_ApologyOnChatFailure ==
    \A t \in Turns :
        chat_reply[t].made =>
            /\ pc[t] \in {"format_response", "end", "done"}
            /\ chat_reply[t].raised => st[t].response = Apology
            /\ ~chat_reply[t].raised =>
                  /\ st[t].response = chat_reply[t].content
                  /\ st[t].response = Apology <=> chat_reply[t].content = Apology
            /\ pc[t] = "done" => payload[t].response = st[t].response

\* a turn whose classifier answered with a JSON object and whose
\* conversational call raised has returned the apology
C22_Witness ==
    \E t \in Turns :
        /\ pc[t] = "done"
        /\ intent_call[t] = "parsed"
        /\ chat_reply[t].made /\ chat_reply[t].raised
        /\ payload[t].response = Apology

\* C23: for a conversation history of every length, the messages
\* normal_chat sends to the model are the system instruction, then the last
\* min(5, length) messages of the history in their order, then the user
\* input; no step of the turn changes the history.
C23_ChatMessagesWindow ==
    /\ [](\A t \in Turns :
             chat_reply[t].made =>
                 LET sent == chat_reply[t].messages
                     h == st[t].messages
                     n == Len(h)
                     k == IF n < HistoryWindow THEN n ELSE HistoryWindow
                 IN /\ Len(sent) = k + 2
                    /\ sent[1] = Msg("system", SystemInstruction)
                    /\ \A i \in 1..k : sent[1 + i] = h[n - k + i]
                    /\ sent[k + 2] = Msg("human", st[t].user_input))
    /\ [][\A t \in Turns : st'[t].messages = st[t].messages]_vars

\* normal_chat has sent the last five of a history of MaxHistory messages
C23_Witness ==
    \E t \in Turns :
        /\ chat_reply[t].made
        /\ Len(st[t].messages) = MaxHistory
        /\ Len(chat_reply[t].messages) = HistoryWindow + 2
        /\ chat_reply[t].messages[2]
               = st[t].messages[MaxHistory - HistoryWindow + 1]
        /\ chat_reply[t].messages[2] # st[t].messages[1]

\* C24: after analyze_intent no node changes need_image_generation or
\* search_query, and no node changes user_input; the branch the turn is on is
\* the one need_image_generation stands for, and the need_image_generation
\* run() returns is that value.
C24_RoutingFieldsFramed ==
    /\ [](\A t \in Turns :
             /\ pc[t] = "done" =>
                   payload[t].need_image_generation = st[t].need_image_generation
             /\ (Classified(t) /\ ImageBranch(t)) =>
                   /\ Count(trace[t], "normal_chat") = 0
                   /\ pc[t] # "normal_chat"
             /\ (Classified(t) /\ ~ImageBranch(t)) =>
                   /\ Count(trace[t], "search_image") = 0
                   /\ pc[t] \notin {"search_image", "generate_image"})
    /\ [][\A t \in Turns :
             /\ pc[t] # "idle" => st'[t].user_input = st[t].user_input
             /\ pc[t] \notin {"idle", "analyze_intent"} =>
                   /\ st'[t].need_image_generation = st[t].need_image_generation
                   /\ st'[t].search_query = st[t].search_query]_vars

\* a turn of the image branch has returned after a refinement that gave a
\* prompt other than the search query: search_query is still the query the
\* reference search was asked
C24_Witness ==
    \E t \in Turns :
        /\ pc[t] = "done"
        /\ payload[t].need_image_generation = PyTrue
        /\ gen_world[t].tool_calls = 1
        /\ gen_world[t].prompt # st[t].search_query
        /\ st[t].search_query = search_world[t].query
        /\ Len(trace[t]) = 4

\* C25: for every reply of the classification model, after analyze_intent
\* need_image_generation is a bool and search_query is a str, the turn is on
\* the image branch only when the reply held a JSON object whose need_image
\* is the boolean true, and a reply without need_image gives False.
C25_ClassifierResultTyped ==
    \A t \in Turns :
        Classified(t) =>
            /\ st[t].need_image_generation.k = "bool"
            /\ st[t].search_query.k = "str"
            /\ ImageBranch(t) =>
                  /\ intent_result[t].kind = "object"
                  /\ intent_result[t].need_image = PyTrue
            /\ intent_result[t].need_image = Missing =>
                  st[t].need_image_generation = PyFalse

C26_GenerateImageResult ==
    \A i \in 1..Len(tool_results) :
        LET r == tool_results[i]
        IN ( /\ r.op = "generate_image"
             /\ r.world.api_key # ""
             /\ r.world.provider.kind = "image" ) =>
               /\ ~r.raised
               /\ DictTruthy(r.ret)
               /\ Get(r.ret, "success", None) = PyTrue
               /\ Get(r.ret, "prompt", Missing) = r.world.prompt
               /\ Get(r.ret, "original_url", None) = PyStr(r.world.provider.url)
               /\ Truthy(r.world.upload) =>
                     /\ Get(r.ret, "minio_path", None) = r.world.upload
                     /\ Get(r.ret, "presigned_url", None) = r.world.signed
                     /\ Get(r.ret, "presigned_url", None).k = "str"
               /\ ~Truthy(r.world.upload) =>
                     /\ Get(r.ret, "minio_path", Missing) = None
                     /\ Get(r.ret, "presigned_url", None)
                            = PyStr(r.world.provider.url)

====
